---- MODULE Spec2Model ----
(***************************************************************************)
(* Model of terraform/cloudfront-keygen.py: the CloudFormation custom      *)
(* resource handler that generates an RSA key pair with openssl, stores    *)
(* it in SSM Parameter Store and answers the lifecycle event with a        *)
(* callback PUT to the event's ResponseURL.                                *)
(*                                                                         *)
(* An event is a function whose DOMAIN is the set of keys present in the   *)
(* Python dict, so that event['X'] raises KeyError exactly when            *)
(* "X" \notin DOMAIN event.  The parameter store is a function from the    *)
(* names of the existing parameters to their records.  One action models   *)
(* one step of handler(); the external calls (openssl, SSM, HTTP) choose   *)
(* their outcome nondeterministically.                                     *)
(***************************************************************************)
EXTENDS Integers, Sequences, FiniteSets, TLC

\* Number of distinct key pairs openssl may produce in the model.
NumKeys == 2

Environments == {"dev", "prod"}
Services == {"edge"}
RequestTypes == {"Create", "Update", "Delete"}

VARIABLES
    store,            \* SSM Parameter Store: Name -> [Value, Type]
    event,            \* the event dict of the running invocation
    pc,               \* position of the handler
    depth,            \* nesting depth of handler() calls (0 when not running)
    request_type,     \* local of handler(), line 36
    environment,      \* local of handler(), line 37
    service,          \* local of handler(), line 38
    tmpdir,           \* the TemporaryDirectory: [exists, files]
    private_key_pem,  \* local of handler(), line 64
    public_key_pem,   \* local of handler(), lines 66 and 102
    err,              \* str(e) of the exception being handled, "" if none
    ssm_calls,        \* SSM calls made by the invocation, in order
    callbacks,        \* HTTP PUTs attempted by the invocation, in order
    raised,           \* the invocation ended by raising to its caller
    store0,           \* the store when the invocation started
    event0,           \* the event as it was passed to the invocation
    lastCreate        \* last Create whose SUCCESS reached the engine

vars == <<store, event, pc, depth, request_type, environment, service,
          tmpdir, private_key_pem, public_key_pem, err, ssm_calls,
          callbacks, raised, store0, event0, lastCreate>>

-----------------------------------------------------------------------------
(* Helpers for dicts *)

Restrict(f, S) == [k \in S |-> f[k]]

Put(f, k, v) == [x \in DOMAIN f \cup {k} |-> IF x = k THEN v ELSE f[x]]

Has(f, k) == k \in DOMAIN f

NoEvent == <<>>
NoFiles == <<>>
NoCreate == <<>>

-----------------------------------------------------------------------------
(* Key material *)

PrivatePem(k) == "RSA PRIVATE KEY " \o ToString(k)

PublicPem(k) == "PUBLIC KEY " \o ToString(k)

\* openssl rsa -in private.pem -pubout: the public half of a private key.
PublicOf(priv) ==
    PublicPem(CHOOSE k \in 1..NumKeys : PrivatePem(k) = priv)

\* base64.b64encode(pem.encode()).decode('utf-8')
b64encode(s) == "b64:" \o s

-----------------------------------------------------------------------------
(* Names computed by the handler *)

PrivateKeyPath(env, svc) == "/" \o env \o "/" \o svc \o "/cloudfront/private-key"

\* Mutant: the public key is given the name of the private key.
PublicKeyPath_AsPrivate(env, svc) ==
    "/" \o env \o "/" \o svc \o "/cloudfront/private-key"

PublicKeyPath(env, svc) == "/" \o env \o "/" \o svc \o "/cloudfront/public-key"

private_key_path == PrivateKeyPath(environment, service)

public_key_path == PublicKeyPath(environment, service)

PhysicalId(env, svc) == "cf-keys-" \o env \o "-" \o svc

FailedResource == "failed-resource"

\* str(KeyError(k))
KeyErrorStr(k) == "'" \o k \o "'"

CalledProcessErrorStr(cmd) ==
    "Command 'openssl " \o cmd \o "' returned non-zero exit status 1."

ReadErrorStr == "[Errno 2] No such file or directory"

ClientErrorStr(op) ==
    "An error occurred (AccessDeniedException) when calling the "
        \o op \o " operation"

KeyData(pub, pubPath, privPath) ==
    [PublicKey |-> pub, PublicKeySSMPath |-> pubPath,
     PrivateKeySSMPath |-> privPath]

\* Mutant: the Delete answer reports more than the message.
DeleteData_WithFlag == [Message |-> "Keys retained in SSM", Deleted |-> "false"]

DeleteData == [Message |-> "Keys retained in SSM"]

ErrorData(msg) == [Error |-> msg]

-----------------------------------------------------------------------------
(* Events *)

FullEvent(t, e, s, p) ==
    [RequestType |-> t,
     ResourceProperties |-> [Environment |-> e, Service |-> s],
     StackId |-> "stack-1",
     RequestId |-> "request-1",
     LogicalResourceId |-> "CloudFrontKeys",
     ResponseURL |-> "https://cloudformation/response",
     PhysicalResourceId |-> p]

TopFields == {"RequestType", "ResourceProperties", "StackId", "RequestId",
              "LogicalResourceId", "ResponseURL", "PhysicalResourceId"}

PropFields == {"Environment", "Service"}

PhysicalIds == {PhysicalId(e, s) : e \in Environments, s \in Services}

CompleteEvents ==
    {FullEvent(t, e, s, p) : t \in RequestTypes, e \in Environments,
                             s \in Services, p \in PhysicalIds}

\* Events with at most one key absent, at the top level or in
\* ResourceProperties.
Events ==
    CompleteEvents
    \cup {Restrict(ev, TopFields \ {f}) : ev \in CompleteEvents, f \in TopFields}
    \cup {[ev EXCEPT !.ResourceProperties = Restrict(@, PropFields \ {f})] :
            ev \in CompleteEvents, f \in PropFields}

\* The keys handler() reads unconditionally at lines 36-38.
HandlerKeysPresent(ev) ==
    /\ Has(ev, "RequestType")
    /\ Has(ev, "ResourceProperties")
    /\ Has(ev.ResourceProperties, "Environment")
    /\ Has(ev.ResourceProperties, "Service")

\* The KeyError raised at lines 36-38, in evaluation order.
HandlerKeyError(ev) ==
    IF ~Has(ev, "RequestType") THEN KeyErrorStr("RequestType")
    ELSE IF ~Has(ev, "ResourceProperties") THEN KeyErrorStr("ResourceProperties")
    ELSE IF ~Has(ev.ResourceProperties, "Environment") THEN KeyErrorStr("Environment")
    ELSE KeyErrorStr("Service")

-----------------------------------------------------------------------------
(* send_response *)

LogStreamName == "2026/11/03/[$LATEST]stream"

\* json.dumps({...}) of lines 14-22, as the dict it serialises.
ResponseBody(ev, status, response_data, physical_resource_id) ==
    [Status |-> status,
     Reason |-> "See CloudWatch Log Stream: " \o LogStreamName,
     PhysicalResourceId |-> physical_resource_id,
     StackId |-> ev.StackId,
     RequestId |-> ev.RequestId,
     LogicalResourceId |-> ev.LogicalResourceId,
     Data |-> response_data]

\* The KeyError raised while the body is built (lines 18-20), "" if none.
BodyKeyError(ev) ==
    IF ~Has(ev, "StackId") THEN KeyErrorStr("StackId")
    ELSE IF ~Has(ev, "RequestId") THEN KeyErrorStr("RequestId")
    ELSE IF ~Has(ev, "LogicalResourceId") THEN KeyErrorStr("LogicalResourceId")
    ELSE ""

\* Mutant: the transport failure is not caught and leaves send_response.
send_response_Raises(ev, status, response_data, physical_resource_id, net) ==
    IF BodyKeyError(ev) # ""
    THEN [exc |-> BodyKeyError(ev), puts |-> <<>>]
    ELSE IF ~Has(ev, "ResponseURL")
    THEN [exc |-> KeyErrorStr("ResponseURL"), puts |-> <<>>]
    ELSE [exc |-> IF net THEN "" ELSE "HTTPSConnectionPool: Max retries exceeded",
          puts |-> <<[url |-> ev.ResponseURL,
                      body |-> ResponseBody(ev, status, response_data,
                                            physical_resource_id),
                      delivered |-> net]>>]

\* send_response(event, context, status, response_data, physical_resource_id)
\* with the transport outcome net (TRUE: the PUT went through).  The result
\* is the exception that leaves the function ("" if it returns) and the PUTs
\* it attempted.  The body is built outside the try block; event['ResponseURL']
\* and http.request are evaluated inside it, where every exception is logged
\* and dropped.
send_response(ev, status, response_data, physical_resource_id, net) ==
    IF BodyKeyError(ev) # ""
    THEN [exc |-> BodyKeyError(ev), puts |-> <<>>]
    ELSE IF ~Has(ev, "ResponseURL")
    THEN [exc |-> "", puts |-> <<>>]
    ELSE [exc |-> "",
          puts |-> <<[url |-> ev.ResponseURL,
                      body |-> ResponseBody(ev, status, response_data,
                                            physical_resource_id),
                      delivered |-> net]>>]

-----------------------------------------------------------------------------
(* The state machine *)

NoDir == [exists |-> FALSE, files |-> NoFiles]

Init ==
    /\ store = <<>>
    /\ event = NoEvent
    /\ pc = "idle"
    /\ depth = 0
    /\ request_type = ""
    /\ environment = ""
    /\ service = ""
    /\ tmpdir = NoDir
    /\ private_key_pem = ""
    /\ public_key_pem = ""
    /\ err = ""
    /\ ssm_calls = <<>>
    /\ callbacks = <<>>
    /\ raised = FALSE
    /\ store0 = <<>>
    /\ event0 = NoEvent
    /\ lastCreate = NoCreate

\* The execution environment calls handler(event, context).
Invoke(ev) ==
    /\ pc = "idle"
    /\ event' = ev
    /\ event0' = ev
    /\ store0' = store
    /\ pc' = "entry"
    /\ depth' = 1
    /\ UNCHANGED <<store, request_type, environment, service, tmpdir,
                   private_key_pem, public_key_pem, err, ssm_calls, callbacks,
                   raised, lastCreate>>

\* What the orchestration engine has learnt when the invocation is over: a
\* Create event whose SUCCESS callback was delivered created the resource.
CreateRecord ==
    IF /\ Has(event0, "RequestType")
       /\ event0.RequestType = "Create"
       /\ callbacks # <<>>
       /\ callbacks[1].body.Status = "SUCCESS"
       /\ callbacks[1].delivered
    THEN [Environment |-> environment, Service |-> service,
          body |-> callbacks[1].body,
          PrivateKeyValue |-> b64encode(private_key_pem)]
    ELSE lastCreate

\* The invocation is over: its locals and its event are gone, the execution
\* environment is ready for the next event.  Nothing of an invocation but
\* the parameter store survives it (the module keeps no state of its own
\* besides the two clients).
Finish ==
    /\ pc = "done"
    /\ pc' = "idle"
    /\ lastCreate' = CreateRecord
    /\ event' = NoEvent
    /\ event0' = NoEvent
    /\ store0' = store
    /\ depth' = 0
    /\ request_type' = ""
    /\ environment' = ""
    /\ service' = ""
    /\ tmpdir' = NoDir
    /\ private_key_pem' = ""
    /\ public_key_pem' = ""
    /\ err' = ""
    /\ ssm_calls' = <<>>
    /\ callbacks' = <<>>
    /\ raised' = FALSE
    /\ UNCHANGED store

\* An exception leaves the handler call at nesting depth d with message msg.
\* The inner call of line 115 sits in the outer try block, so its exception
\* is caught by the outer "except Exception"; the outermost call raises to
\* the execution environment.
Propagate(msg) ==
    IF depth > 1
    THEN /\ depth' = depth - 1
         /\ err' = msg
         /\ pc' = "except"
         /\ raised' = raised
    ELSE /\ depth' = 0
         /\ err' = msg
         /\ pc' = "done"
         /\ raised' = TRUE

\* Mutant: the inner call of line 115 is not returned from; the outer call
\* goes on to answer the Update itself.
Return_Resumes ==
    IF depth > 1
    THEN /\ depth' = depth - 1
         /\ pc' = "send_update"
         /\ UNCHANGED <<err, raised>>
    ELSE /\ depth' = 0
         /\ pc' = "done"
         /\ UNCHANGED <<err, raised>>

\* The handler call returns None; "return handler(event, context)" of the
\* enclosing call returns with it.
Return ==
    /\ depth' = 0
    /\ pc' = "done"
    /\ UNCHANGED <<err, raised>>

\* Lines 36-45, 98, 117: read the event, branch on request_type.
HandlerEntry ==
    /\ pc = "entry"
    /\ IF HandlerKeysPresent(event)
       THEN /\ request_type' = event.RequestType
            /\ environment' = event.ResourceProperties.Environment
            /\ service' = event.ResourceProperties.Service
            /\ pc' = CASE event.RequestType = "Create" -> "mktemp"
                       [] event.RequestType = "Update" -> "get_parameter"
                       [] event.RequestType = "Delete" -> "delete"
                       [] OTHER -> "done"
            /\ depth' = IF event.RequestType \in RequestTypes THEN depth ELSE 0
            /\ UNCHANGED <<err, raised>>
       ELSE /\ Propagate(HandlerKeyError(event))
            /\ UNCHANGED <<request_type, environment, service>>
    /\ UNCHANGED <<store, event, tmpdir, private_key_pem, public_key_pem,
                   ssm_calls, callbacks, store0, event0, lastCreate>>

\* Line 47: entering the with block creates the temporary directory.
MkTemp ==
    /\ pc = "mktemp"
    /\ tmpdir' = [exists |-> TRUE, files |-> NoFiles]
    /\ pc' = "genrsa"
    /\ UNCHANGED <<store, event, depth, request_type, environment, service,
                   private_key_pem, public_key_pem, err, ssm_calls, callbacks,
                   raised, store0, event0, lastCreate>>

\* Lines 53-55: openssl genrsa -out private.pem 2048, check=True.
GenRsa ==
    /\ pc = "genrsa"
    /\ \/ \E k \in 1..NumKeys :
            /\ tmpdir' = [tmpdir EXCEPT
                            !.files = Put(@, "private.pem", PrivatePem(k))]
            /\ pc' = "pubout"
            /\ err' = err
       \/ /\ err' = CalledProcessErrorStr("genrsa")
          /\ pc' = "cleanup"
          /\ tmpdir' = tmpdir
    /\ UNCHANGED <<store, event, depth, request_type, environment, service,
                   private_key_pem, public_key_pem, ssm_calls, callbacks,
                   raised, store0, event0, lastCreate>>

\* Lines 58-60: openssl rsa -in private.pem -pubout -out public.pem.
PubOut ==
    /\ pc = "pubout"
    /\ \/ /\ tmpdir' = [tmpdir EXCEPT
                          !.files = Put(@, "public.pem",
                                        PublicOf(tmpdir.files["private.pem"]))]
          /\ pc' = "readkeys"
          /\ err' = err
       \/ /\ err' = CalledProcessErrorStr("rsa")
          /\ pc' = "cleanup"
          /\ tmpdir' = tmpdir
    /\ UNCHANGED <<store, event, depth, request_type, environment, service,
                   private_key_pem, public_key_pem, ssm_calls, callbacks,
                   raised, store0, event0, lastCreate>>

\* Lines 63-66: read both files.
ReadKeys ==
    /\ pc = "readkeys"
    /\ \/ /\ private_key_pem' = tmpdir.files["private.pem"]
          /\ public_key_pem' = tmpdir.files["public.pem"]
          /\ err' = err
       \/ /\ err' = ReadErrorStr
          /\ UNCHANGED <<private_key_pem, public_key_pem>>
    /\ pc' = "cleanup"
    /\ UNCHANGED <<store, event, depth, request_type, environment, service,
                   tmpdir, ssm_calls, callbacks, raised, store0, event0,
                   lastCreate>>

\* Mutant: the directory is removed at the end of the block only, an
\* exception leaves it behind.
Cleanup_OnlyOnSuccess ==
    /\ pc = "cleanup"
    /\ tmpdir' = IF err # "" THEN tmpdir ELSE NoDir
    /\ pc' = IF err # "" THEN "except" ELSE "put_private"
    /\ UNCHANGED <<store, event, depth, request_type, environment, service,
                   private_key_pem, public_key_pem, err, ssm_calls, callbacks,
                   raised, store0, event0, lastCreate>>

\* Leaving the with block of line 47, normally or by an exception, removes
\* the directory; an exception then reaches the except clause of line 125.
Cleanup ==
    /\ pc = "cleanup"
    /\ tmpdir' = NoDir
    /\ pc' = IF err # "" THEN "except" ELSE "put_private"
    /\ UNCHANGED <<store, event, depth, request_type, environment, service,
                   private_key_pem, public_key_pem, err, ssm_calls, callbacks,
                   raised, store0, event0, lastCreate>>

PutCall(name, value, type, ok) ==
    [op |-> "put_parameter", Name |-> name, Value |-> value, Type |-> type,
     Overwrite |-> TRUE, ok |-> ok]

GetCall(name, result) ==
    [op |-> "get_parameter", Name |-> name, result |-> result]

\* Mutant: put_parameter without Overwrite keeps an existing parameter.
put_parameter_NoOverwrite(st, name, value, type) ==
    IF Has(st, name) THEN st ELSE Put(st, name, [Value |-> value, Type |-> type])

\* ssm_client.put_parameter(Name, Value, Type, Overwrite=True) that succeeds.
put_parameter(st, name, value, type) ==
    Put(st, name, [Value |-> value, Type |-> type])

\* Mutant: a failure of the private-key write is logged and the handler
\* goes on to the public-key write.
PutPrivate_Continues ==
    /\ pc = "put_private"
    /\ \E ok \in BOOLEAN :
         /\ ssm_calls' = Append(ssm_calls,
                PutCall(private_key_path, b64encode(private_key_pem),
                        "SecureString", ok))
         /\ store' = IF ok
                     THEN put_parameter(store, private_key_path,
                              b64encode(private_key_pem), "SecureString")
                     ELSE store
         /\ pc' = "put_public"
         /\ err' = err
    /\ UNCHANGED <<event, depth, request_type, environment, service, tmpdir,
                   private_key_pem, public_key_pem, callbacks, raised, store0,
                   event0, lastCreate>>

\* Lines 69-76: store the base64-encoded private key as a SecureString.
PutPrivate ==
    /\ pc = "put_private"
    /\ \E ok \in BOOLEAN :
         /\ ssm_calls' = Append(ssm_calls,
                PutCall(private_key_path, b64encode(private_key_pem),
                        "SecureString", ok))
         /\ IF ok
            THEN /\ store' = put_parameter(store, private_key_path,
                                 b64encode(private_key_pem), "SecureString")
                 /\ pc' = "put_public"
                 /\ err' = err
            ELSE /\ store' = store
                 /\ pc' = "except"
                 /\ err' = ClientErrorStr("PutParameter")
    /\ UNCHANGED <<event, depth, request_type, environment, service, tmpdir,
                   private_key_pem, public_key_pem, callbacks, raised, store0,
                   event0, lastCreate>>

\* Lines 80-86: store the public key as a String.
PutPublic ==
    /\ pc = "put_public"
    /\ \E ok \in BOOLEAN :
         /\ ssm_calls' = Append(ssm_calls,
                PutCall(public_key_path, public_key_pem, "String", ok))
         /\ IF ok
            THEN /\ store' = put_parameter(store, public_key_path,
                                           public_key_pem, "String")
                 /\ pc' = "send_create"
                 /\ err' = err
            ELSE /\ store' = store
                 /\ pc' = "except"
                 /\ err' = ClientErrorStr("PutParameter")
    /\ UNCHANGED <<event, depth, request_type, environment, service, tmpdir,
                   private_key_pem, public_key_pem, callbacks, raised, store0,
                   event0, lastCreate>>

\* The handler continues after a send_response call made in the try block:
\* an exception of the call is caught at line 125, otherwise the branch is
\* over and the handler returns.
AfterSend(r) ==
    /\ callbacks' = callbacks \o r.puts
    /\ IF r.exc # ""
       THEN /\ pc' = "except"
            /\ err' = r.exc
            /\ UNCHANGED <<depth, raised>>
       ELSE Return

\* Lines 89-96: answer SUCCESS with the computed physical resource id.
SendCreate ==
    /\ pc = "send_create"
    /\ \E net \in BOOLEAN :
         AfterSend(send_response(event, "SUCCESS",
             KeyData(public_key_pem, public_key_path, private_key_path),
             PhysicalId(environment, service), net))
    /\ UNCHANGED <<store, event, request_type, environment, service, tmpdir,
                   private_key_pem, public_key_pem, ssm_calls, store0, event0,
                   lastCreate>>

\* Mutant: ParameterNotFound is handled like every other exception.
GetParameter_NoFallback ==
    /\ pc = "get_parameter"
    /\ \/ /\ Has(store, public_key_path)
          /\ ssm_calls' = Append(ssm_calls, GetCall(public_key_path, "found"))
          /\ public_key_pem' = store[public_key_path].Value
          /\ pc' = "send_update"
          /\ UNCHANGED <<event, depth, err>>
       \/ /\ ~Has(store, public_key_path)
          /\ ssm_calls' = Append(ssm_calls,
                                 GetCall(public_key_path, "ParameterNotFound"))
          /\ err' = ClientErrorStr("GetParameter")
          /\ pc' = "except"
          /\ UNCHANGED <<event, depth, public_key_pem>>
       \/ /\ ssm_calls' = Append(ssm_calls, GetCall(public_key_path, "error"))
          /\ err' = ClientErrorStr("GetParameter")
          /\ pc' = "except"
          /\ UNCHANGED <<event, depth, public_key_pem>>
    /\ UNCHANGED <<store, request_type, environment, service, tmpdir,
                   private_key_pem, callbacks, raised, store0, event0,
                   lastCreate>>

\* Mutant: ParameterNotFound calls handler() again without rewriting
\* RequestType.
GetParameter_NoRewrite ==
    /\ pc = "get_parameter"
    /\ \/ /\ Has(store, public_key_path)
          /\ ssm_calls' = Append(ssm_calls, GetCall(public_key_path, "found"))
          /\ public_key_pem' = store[public_key_path].Value
          /\ pc' = "send_update"
          /\ UNCHANGED <<event, depth, err>>
       \/ /\ ~Has(store, public_key_path)
          /\ ssm_calls' = Append(ssm_calls,
                                 GetCall(public_key_path, "ParameterNotFound"))
          /\ depth' = depth + 1
          /\ pc' = "entry"
          /\ UNCHANGED <<event, public_key_pem, err>>
       \/ /\ ssm_calls' = Append(ssm_calls, GetCall(public_key_path, "error"))
          /\ err' = ClientErrorStr("GetParameter")
          /\ pc' = "except"
          /\ UNCHANGED <<event, depth, public_key_pem>>
    /\ UNCHANGED <<store, request_type, environment, service, tmpdir,
                   private_key_pem, callbacks, raised, store0, event0,
                   lastCreate>>

\* Lines 100-102 and 111-115: read the public key; ParameterNotFound
\* rewrites the event to a Create and calls handler() again.
GetParameter ==
    /\ pc = "get_parameter"
    /\ \/ /\ Has(store, public_key_path)
          /\ ssm_calls' = Append(ssm_calls, GetCall(public_key_path, "found"))
          /\ public_key_pem' = store[public_key_path].Value
          /\ pc' = "send_update"
          /\ UNCHANGED <<event, depth, err>>
       \/ /\ ~Has(store, public_key_path)
          /\ ssm_calls' = Append(ssm_calls,
                                 GetCall(public_key_path, "ParameterNotFound"))
          /\ event' = [event EXCEPT !.RequestType = "Create"]
          /\ depth' = depth + 1
          /\ pc' = "entry"
          /\ UNCHANGED <<public_key_pem, err>>
       \/ /\ ssm_calls' = Append(ssm_calls, GetCall(public_key_path, "error"))
          /\ err' = ClientErrorStr("GetParameter")
          /\ pc' = "except"
          /\ UNCHANGED <<event, depth, public_key_pem>>
    /\ UNCHANGED <<store, request_type, environment, service, tmpdir,
                   private_key_pem, callbacks, raised, store0, event0,
                   lastCreate>>

\* Mutant: the Update answers with the computed physical resource id.
SendUpdate_Computed ==
    /\ pc = "send_update"
    /\ \E net \in BOOLEAN :
         AfterSend(send_response(event, "SUCCESS",
             KeyData(public_key_pem, public_key_path, private_key_path),
             PhysicalId(environment, service), net))
    /\ UNCHANGED <<store, event, request_type, environment, service, tmpdir,
                   private_key_pem, public_key_pem, ssm_calls, store0, event0,
                   lastCreate>>

\* Lines 104-110: answer SUCCESS with the stored public key and the
\* physical resource id of the event.
SendUpdate ==
    /\ pc = "send_update"
    /\ IF Has(event, "PhysicalResourceId")
       THEN \E net \in BOOLEAN :
              AfterSend(send_response(event, "SUCCESS",
                  KeyData(public_key_pem, public_key_path, private_key_path),
                  event.PhysicalResourceId, net))
       ELSE /\ err' = KeyErrorStr("PhysicalResourceId")
            /\ pc' = "except"
            /\ UNCHANGED <<callbacks, depth, raised>>
    /\ UNCHANGED <<store, event, request_type, environment, service, tmpdir,
                   private_key_pem, public_key_pem, ssm_calls, store0, event0,
                   lastCreate>>

\* Mutant: the default is used whether the event has the key or not.
GetPhysicalResourceId_Default(ev, default) == default

\* event.get('PhysicalResourceId', default)
GetPhysicalResourceId(ev, default) ==
    IF Has(ev, "PhysicalResourceId") THEN ev.PhysicalResourceId ELSE default

\* Mutant: the Delete removes the two parameters before it answers.
SendDelete_Removes ==
    /\ pc = "delete"
    /\ store' = Restrict(store,
                    DOMAIN store \ {private_key_path, public_key_path})
    /\ \E net \in BOOLEAN :
         AfterSend(send_response(event, "SUCCESS", DeleteData,
             IF Has(event, "PhysicalResourceId")
             THEN event.PhysicalResourceId
             ELSE PhysicalId(environment, service),
             net))
    /\ UNCHANGED <<event, request_type, environment, service, tmpdir,
                   private_key_pem, public_key_pem, ssm_calls, store0, event0,
                   lastCreate>>

\* Lines 119-123: keep the keys, answer SUCCESS.
SendDelete ==
    /\ pc = "delete"
    /\ \E net \in BOOLEAN :
         AfterSend(send_response(event, "SUCCESS", DeleteData,
             GetPhysicalResourceId(event, PhysicalId(environment, service)),
             net))
    /\ UNCHANGED <<store, event, request_type, environment, service, tmpdir,
                   private_key_pem, public_key_pem, ssm_calls, store0, event0,
                   lastCreate>>

\* Mutant: the failure is logged and answered SUCCESS.
SendFailed_Success ==
    /\ pc = "except"
    /\ \E net \in BOOLEAN :
         LET r == send_response(event, "SUCCESS", ErrorData(err),
                     IF Has(event, "PhysicalResourceId")
                     THEN event.PhysicalResourceId ELSE FailedResource, net)
         IN /\ callbacks' = callbacks \o r.puts
            /\ IF r.exc # "" THEN Propagate(r.exc) ELSE Return
    /\ UNCHANGED <<store, event, request_type, environment, service, tmpdir,
                   private_key_pem, public_key_pem, ssm_calls, store0, event0,
                   lastCreate>>

\* Lines 125-128: answer FAILED.  An exception of this send_response call
\* leaves the handler call.
SendFailed ==
    /\ pc = "except"
    /\ \E net \in BOOLEAN :
         LET r == send_response(event, "FAILED", ErrorData(err),
                     GetPhysicalResourceId(event, FailedResource), net)
         IN /\ callbacks' = callbacks \o r.puts
            /\ IF r.exc # "" THEN Propagate(r.exc) ELSE Return
    /\ UNCHANGED <<store, event, request_type, environment, service, tmpdir,
                   private_key_pem, public_key_pem, ssm_calls, store0, event0,
                   lastCreate>>

Next ==
    \/ \E ev \in Events : Invoke(ev)
    \/ HandlerEntry
    \/ MkTemp
    \/ GenRsa
    \/ PubOut
    \/ ReadKeys
    \/ Cleanup
    \/ PutPrivate
    \/ PutPublic
    \/ SendCreate
    \/ GetParameter
    \/ SendUpdate
    \/ SendDelete
    \/ SendFailed
    \/ Finish

Spec == Init /\ [][Next]_vars

\* One step of a running handler call.
HandlerStep ==
    \/ HandlerEntry
    \/ MkTemp
    \/ GenRsa
    \/ PubOut
    \/ ReadKeys
    \/ Cleanup
    \/ PutPrivate
    \/ PutPublic
    \/ SendCreate
    \/ GetParameter
    \/ SendUpdate
    \/ SendDelete
    \/ SendFailed

\* The end of an invocation as the handler and the store see it: the
\* engine's record of the last Create is no state of the program and is
\* left alone.
FinishHandler ==
    /\ pc = "done"
    /\ pc' = "idle"
    /\ event' = NoEvent
    /\ event0' = NoEvent
    /\ store0' = store
    /\ depth' = 0
    /\ request_type' = ""
    /\ environment' = ""
    /\ service' = ""
    /\ tmpdir' = NoDir
    /\ private_key_pem' = ""
    /\ public_key_pem' = ""
    /\ err' = ""
    /\ ssm_calls' = <<>>
    /\ callbacks' = <<>>
    /\ raised' = FALSE
    /\ UNCHANGED <<store, lastCreate>>

HandlerNext ==
    \/ \E ev \in Events : Invoke(ev)
    \/ HandlerStep
    \/ FinishHandler

\* The handler is synchronous straight-line code whose external calls
\* return or raise: a running invocation takes its next step.  Progress is
\* a matter of the handler and the store only, so this specification runs
\* them without the engine's record.
FairSpec == Init /\ [][HandlerNext]_vars /\ WF_vars(HandlerStep)

-----------------------------------------------------------------------------
(* Types *)

TypeOK ==
    /\ pc \in {"idle", "entry", "mktemp", "genrsa", "pubout", "readkeys",
               "cleanup", "put_private", "put_public", "send_create",
               "get_parameter", "send_update", "delete", "except", "done"}
    /\ depth \in 0..2
    /\ raised \in BOOLEAN
    /\ Len(callbacks) <= 3
    /\ \A n \in DOMAIN store : store[n].Type \in {"SecureString", "String"}

-----------------------------------------------------------------------------
(* Vocabulary of the properties *)

\* The event has every key of the event shape but the optional
\* PhysicalResourceId.
WellFormed(ev) ==
    /\ TopFields \ {"PhysicalResourceId"} \subseteq DOMAIN ev
    /\ PropFields \subseteq DOMAIN ev.ResourceProperties

\* The event has the keys the handler needs to know what is asked of it.
Typed(ev, t) == HandlerKeysPresent(ev) /\ ev.RequestType = t

EnvOf(ev) == ev.ResourceProperties.Environment

SvcOf(ev) == ev.ResourceProperties.Service

ExpectedPrivatePath(ev) ==
    "/" \o EnvOf(ev) \o "/" \o SvcOf(ev) \o "/cloudfront/private-key"

ExpectedPublicPath(ev) ==
    "/" \o EnvOf(ev) \o "/" \o SvcOf(ev) \o "/cloudfront/public-key"

ExpectedId(ev) == "cf-keys-" \o EnvOf(ev) \o "-" \o SvcOf(ev)

ExpectedKeyData(ev, pub) ==
    [PublicKey |-> pub,
     PublicKeySSMPath |-> ExpectedPublicPath(ev),
     PrivateKeySSMPath |-> ExpectedPrivatePath(ev)]

\* private and public are the two halves of one generated key pair.
IsKeyPair(private, public) ==
    \E k \in 1..NumKeys : private = PrivatePem(k) /\ public = PublicPem(k)

\* The two writes of a Create for the event, with the keys of the locals.
ExpectedPrivateWrite(ev) ==
    [op |-> "put_parameter", Name |-> ExpectedPrivatePath(ev),
     Value |-> b64encode(private_key_pem), Type |-> "SecureString",
     Overwrite |-> TRUE, ok |-> TRUE]

ExpectedPublicWrite(ev) ==
    [op |-> "put_parameter", Name |-> ExpectedPublicPath(ev),
     Value |-> public_key_pem, Type |-> "String",
     Overwrite |-> TRUE, ok |-> TRUE]

\* The store is store0 with the two parameters of the event overwritten by
\* the keys of the locals.
StoreHoldsNewKeys(ev) ==
    /\ DOMAIN store =
         DOMAIN store0 \cup {ExpectedPrivatePath(ev), ExpectedPublicPath(ev)}
    /\ store[ExpectedPrivatePath(ev)] =
         [Value |-> b64encode(private_key_pem), Type |-> "SecureString"]
    /\ store[ExpectedPublicPath(ev)] =
         [Value |-> public_key_pem, Type |-> "String"]
    /\ \A n \in DOMAIN store0 \ {ExpectedPrivatePath(ev), ExpectedPublicPath(ev)} :
         store[n] = store0[n]

\* The invocation attempted exactly one callback, with this content.
OneCallback(status, id, data) ==
    /\ Len(callbacks) = 1
    /\ callbacks[1].url = event0.ResponseURL
    /\ callbacks[1].body.Status = status
    /\ callbacks[1].body.PhysicalResourceId = id
    /\ callbacks[1].body.Data = data
    /\ callbacks[1].body.StackId = event0.StackId
    /\ callbacks[1].body.RequestId = event0.RequestId
    /\ callbacks[1].body.LogicalResourceId = event0.LogicalResourceId

SuppliedId(ev, default) ==
    IF "PhysicalResourceId" \in DOMAIN ev THEN ev.PhysicalResourceId ELSE default

-----------------------------------------------------------------------------
CreateSucceeded ==
    /\ pc = "done"
    /\ WellFormed(event0)
    /\ event0.RequestType = "Create"
    /\ err = ""

(* C1: a Create event with all the keys of the event shape, whose key       *)
(* generation and store writes all succeed, makes exactly two store        *)
(* writes -- the base64-encoded private key as a SecureString at           *)
(* /{Environment}/{Service}/cloudfront/private-key, then the plain public  *)
(* key as a String at /{Environment}/{Service}/cloudfront/public-key, both *)
(* overwriting -- and attempts one SUCCESS callback with                   *)
(* PhysicalResourceId cf-keys-{Environment}-{Service} and Data holding the *)
(* generated public key and the two paths.                                 *)
C1_CreateWritesBothKeysAndAnswersSuccess ==
    CreateSucceeded =>
        /\ IsKeyPair(private_key_pem, public_key_pem)
        /\ ssm_calls = <<ExpectedPrivateWrite(event0), ExpectedPublicWrite(event0)>>
        /\ StoreHoldsNewKeys(event0)
        /\ OneCallback("SUCCESS", ExpectedId(event0),
                       ExpectedKeyData(event0, public_key_pem))
        /\ ~raised
        /\ (EnvOf(event0) = "prod" /\ SvcOf(event0) = "edge") =>
              /\ callbacks[1].body.Data.PublicKeySSMPath
                    = "/prod/edge/cloudfront/public-key"
              /\ callbacks[1].body.Data.PrivateKeySSMPath
                    = "/prod/edge/cloudfront/private-key"
              /\ callbacks[1].body.PhysicalResourceId = "cf-keys-prod-edge"

C1_Witness ==
    /\ CreateSucceeded
    /\ EnvOf(event0) = "prod"
    /\ Len(ssm_calls) = 2
    /\ Len(callbacks) = 1
    /\ callbacks[1].body.Status = "SUCCESS"
    /\ ExpectedPrivatePath(event0) \in DOMAIN store0
    /\ store0[ExpectedPrivatePath(event0)].Value # b64encode(private_key_pem)

-----------------------------------------------------------------------------
UpdateNotFound ==
    /\ pc = "done"
    /\ WellFormed(event0)
    /\ event0.RequestType = "Update"
    /\ ExpectedPublicPath(event0) \notin DOMAIN store0
    /\ ssm_calls[1].result # "error"

(* C2: an Update event whose public-key parameter is absent from the       *)
(* store (the read answers ParameterNotFound) is handled as a Create: the  *)
(* handler re-enters with RequestType rewritten to Create and never        *)
(* answers SUCCESS with anything but the computed id                       *)
(* cf-keys-{Environment}-{Service}; when generation and the writes         *)
(* succeed it has generated a key pair, made the two writes of a Create    *)
(* after the read, and attempted one SUCCESS callback with the computed    *)
(* id (not the id of the event) and the Create Data.                       *)
C2_UpdateNotFoundActsAsCreate ==
    UpdateNotFound =>
        /\ ssm_calls[1] = [op |-> "get_parameter",
                           Name |-> ExpectedPublicPath(event0),
                           result |-> "ParameterNotFound"]
        /\ event = [event0 EXCEPT !.RequestType = "Create"]
        /\ \A i \in DOMAIN callbacks :
              callbacks[i].body.Status = "SUCCESS" =>
                  callbacks[i].body.PhysicalResourceId = ExpectedId(event0)
        /\ err = "" =>
              /\ IsKeyPair(private_key_pem, public_key_pem)
              /\ Tail(ssm_calls) = <<ExpectedPrivateWrite(event0),
                                     ExpectedPublicWrite(event0)>>
              /\ StoreHoldsNewKeys(event0)
              /\ OneCallback("SUCCESS", ExpectedId(event0),
                             ExpectedKeyData(event0, public_key_pem))

C2_Witness ==
    /\ UpdateNotFound
    /\ err = ""
    /\ Len(ssm_calls) = 3
    /\ Len(callbacks) = 1
    /\ "PhysicalResourceId" \in DOMAIN event0
    /\ callbacks[1].body.PhysicalResourceId # event0.PhysicalResourceId

-----------------------------------------------------------------------------
UpdateFound ==
    /\ pc = "done"
    /\ Typed(event0, "Update")
    /\ ExpectedPublicPath(event0) \in DOMAIN store0

(* C3: an Update event whose public-key parameter exists in the store      *)
(* generates no key and writes nothing, the store is as it was before the  *)
(* invocation; when the read returns the parameter and the event carries   *)
(* a PhysicalResourceId, the handler attempts one SUCCESS callback with    *)
(* that PhysicalResourceId and with Data.PublicKey the stored value.       *)
C3_UpdateFoundReadsOnly ==
    UpdateFound =>
        /\ store = store0
        /\ private_key_pem = ""
        /\ event = event0
        /\ \A i \in DOMAIN ssm_calls : ssm_calls[i].op = "get_parameter"
        /\ Len(ssm_calls) = 1
        /\ (/\ WellFormed(event0)
            /\ "PhysicalResourceId" \in DOMAIN event0
            /\ ssm_calls[1].result = "found") =>
              /\ OneCallback("SUCCESS", event0.PhysicalResourceId,
                     ExpectedKeyData(event0,
                         store0[ExpectedPublicPath(event0)].Value))
              /\ ~raised

C3_Witness ==
    /\ UpdateFound
    /\ WellFormed(event0)
    /\ "PhysicalResourceId" \in DOMAIN event0
    /\ event0.PhysicalResourceId # ExpectedId(event0)
    /\ Len(callbacks) = 1
    /\ callbacks[1].body.Status = "SUCCESS"

-----------------------------------------------------------------------------
DeleteDone ==
    /\ pc = "done"
    /\ Typed(event0, "Delete")

(* C4: a Delete event makes no store call at all -- no read, no write, no  *)
(* removal -- so the store after the invocation is the store before it,    *)
(* and the handler attempts one SUCCESS callback whose PhysicalResourceId  *)
(* is the one of the event when it has one and                             *)
(* cf-keys-{Environment}-{Service} otherwise.                              *)
C4_DeleteRetainsKeys ==
    DeleteDone =>
        /\ ssm_calls = <<>>
        /\ store = store0
        /\ private_key_pem = ""
        /\ WellFormed(event0) =>
              /\ Len(callbacks) = 1
              /\ callbacks[1].body.Status = "SUCCESS"
              /\ callbacks[1].body.PhysicalResourceId
                    = SuppliedId(event0, ExpectedId(event0))
              /\ ~raised

C4_Witness ==
    /\ DeleteDone
    /\ WellFormed(event0)
    /\ store0 # <<>>
    /\ "PhysicalResourceId" \notin DOMAIN event0
    /\ Len(callbacks) = 1
    /\ callbacks[1].body.PhysicalResourceId = ExpectedId(event0)

-----------------------------------------------------------------------------
CreateOrUpdateFailed ==
    /\ pc = "done"
    /\ WellFormed(event0)
    /\ event0.RequestType \in {"Create", "Update"}
    /\ err # ""

(* C5: a Create or Update event with all the keys of the event shape in    *)
(* whose handling an exception occurred (openssl failed, a key file could  *)
(* not be read, a put_parameter failed, get_parameter failed with an error *)
(* other than ParameterNotFound) attempts exactly one callback, FAILED,    *)
(* with a non-empty Data.Error and with the PhysicalResourceId of the      *)
(* event if it has one, else "failed-resource"; also when the exception    *)
(* occurred in the Create entered from an Update.                          *)
C5_FailureAnswersFailed ==
    CreateOrUpdateFailed =>
        /\ Len(callbacks) = 1
        /\ callbacks[1].body.Status = "FAILED"
        /\ DOMAIN callbacks[1].body.Data = {"Error"}
        /\ callbacks[1].body.Data.Error = err
        /\ Len(callbacks[1].body.Data.Error) > 0
        /\ callbacks[1].body.PhysicalResourceId
              = SuppliedId(event0, "failed-resource")
        /\ ~raised

\* The failure happened in the Create entered from an Update, after the
\* private key had been written.
C5_Witness ==
    /\ CreateOrUpdateFailed
    /\ event0.RequestType = "Update"
    /\ event.RequestType = "Create"
    /\ Len(ssm_calls) = 3
    /\ ~ssm_calls[3].ok
    /\ Len(callbacks) = 1
    /\ callbacks[1].body.Status = "FAILED"

-----------------------------------------------------------------------------
MissingRequiredKey(ev) ==
    \/ ~HandlerKeysPresent(ev)
    \/ ~({"StackId", "RequestId", "LogicalResourceId"} \subseteq DOMAIN ev)

(* C6: an event that lacks RequestType, ResourceProperties,                *)
(* ResourceProperties.Environment, ResourceProperties.Service, StackId,    *)
(* RequestId or LogicalResourceId is answered with a FAILED callback that  *)
(* carries an error message, and the handler returns without raising.      *)
C6_MalformedEventAnswersFailed ==
    (pc = "done" /\ MissingRequiredKey(event0)) =>
        /\ ~raised
        /\ \E i \in DOMAIN callbacks :
              /\ callbacks[i].body.Status = "FAILED"
              /\ "Error" \in DOMAIN callbacks[i].body.Data

-----------------------------------------------------------------------------
AppliedWrites ==
    {ssm_calls[i].Name : i \in {j \in DOMAIN ssm_calls :
        ssm_calls[j].op = "put_parameter" /\ ssm_calls[j].ok}}

(* C7: a Create that is answered FAILED has applied either both store      *)
(* writes or none: never the private-key write without the public-key      *)
(* write.                                                                  *)
C7_FailedCreateLeavesNoPartialWrite ==
    (/\ pc = "done"
     /\ Typed(event0, "Create")
     /\ \E i \in DOMAIN callbacks : callbacks[i].body.Status = "FAILED") =>
        \/ AppliedWrites = {}
        \/ AppliedWrites = {ExpectedPrivatePath(event0),
                            ExpectedPublicPath(event0)}

-----------------------------------------------------------------------------
\* An Update or Delete event as the engine sends it for the resource it
\* created last: with the PhysicalResourceId that Create returned.
LaterEventDone ==
    /\ pc = "done"
    /\ lastCreate # NoCreate
    /\ HandlerKeysPresent(event0)
    /\ event0.RequestType \in {"Update", "Delete"}
    /\ "PhysicalResourceId" \in DOMAIN event0
    /\ event0.PhysicalResourceId = lastCreate.body.PhysicalResourceId

(* C8: after a Create answered SUCCESS, every callback of a later Update   *)
(* or Delete event that carries the PhysicalResourceId assigned by that    *)
(* Create carries that same PhysicalResourceId.                            *)
C8_PhysicalResourceIdIsStable ==
    LaterEventDone =>
        \A i \in DOMAIN callbacks :
            callbacks[i].body.PhysicalResourceId = event0.PhysicalResourceId

(* C8, amended: every callback of such an event carries the                *)
(* PhysicalResourceId of the event, except the SUCCESS callback of an      *)
(* Update whose public key is not found in the store: that one carries     *)
(* cf-keys-{Environment}-{Service} computed from the properties of the     *)
(* event.                                                                  *)
C8_IdEchoedExceptOnFallback ==
    LaterEventDone =>
        \A i \in DOMAIN callbacks :
            IF /\ event0.RequestType = "Update"
               /\ ssm_calls[1].result = "ParameterNotFound"
               /\ callbacks[i].body.Status = "SUCCESS"
            THEN callbacks[i].body.PhysicalResourceId = ExpectedId(event0)
            ELSE callbacks[i].body.PhysicalResourceId
                    = event0.PhysicalResourceId

\* An Update of the created resource with a changed Environment, answered
\* SUCCESS with another id than the one the engine supplied.
C8_Witness ==
    /\ LaterEventDone
    /\ event0.RequestType = "Update"
    /\ EnvOf(event0) # lastCreate.Environment
    /\ Len(callbacks) = 1
    /\ callbacks[1].body.Status = "SUCCESS"
    /\ callbacks[1].body.PhysicalResourceId # event0.PhysicalResourceId

-----------------------------------------------------------------------------
TransportFailed ==
    /\ pc = "done"
    /\ \E i \in DOMAIN callbacks : ~callbacks[i].delivered

(* C9: when the transport fails while a callback is delivered, the handler *)
(* returns without raising, that callback is the only one the invocation   *)
(* attempted (no retry, no FAILED callback on top), and every store write  *)
(* the invocation applied is still in the store.                           *)
C9_TransportFailureIsSwallowed ==
    TransportFailed =>
        /\ ~raised
        /\ Len(callbacks) = 1
        /\ \A j \in DOMAIN ssm_calls :
              (ssm_calls[j].op = "put_parameter" /\ ssm_calls[j].ok) =>
                  /\ ssm_calls[j].Name \in DOMAIN store
                  /\ store[ssm_calls[j].Name].Value = ssm_calls[j].Value

C9_Witness ==
    /\ TransportFailed
    /\ callbacks[1].body.Status = "SUCCESS"
    /\ Cardinality(AppliedWrites) = 2
    /\ store # store0

-----------------------------------------------------------------------------
SecondCreateSucceeded ==
    /\ CreateSucceeded
    /\ lastCreate # NoCreate
    /\ lastCreate.Environment = EnvOf(event0)
    /\ lastCreate.Service = SvcOf(event0)

(* C10: a second successful Create for the Environment and Service of an   *)
(* earlier successful Create leaves in the store the key values the first  *)
(* one left, and answers with the same PhysicalResourceId and Data.        *)
C10_CreateIsIdempotent ==
    SecondCreateSucceeded =>
        /\ callbacks[1].body.PhysicalResourceId
              = lastCreate.body.PhysicalResourceId
        /\ callbacks[1].body.Data = lastCreate.body.Data
        /\ store[ExpectedPrivatePath(event0)].Value = lastCreate.PrivateKeyValue
        /\ store[ExpectedPublicPath(event0)].Value
              = lastCreate.body.Data.PublicKey

(* C10, amended: a second successful Create for the same Environment and   *)
(* Service writes the same two paths and answers with the same             *)
(* PhysicalResourceId, PublicKeySSMPath and PrivateKeySSMPath as the       *)
(* first, but the two parameters and Data.PublicKey hold the key pair the  *)
(* second Create generated, which replaces whatever the store held: the    *)
(* Data equal the first one's only if openssl produced the same key again. *)
C10_SecondCreateReplacesKeys ==
    SecondCreateSucceeded =>
        /\ callbacks[1].body.PhysicalResourceId
              = lastCreate.body.PhysicalResourceId
        /\ callbacks[1].body.Data.PublicKeySSMPath
              = lastCreate.body.Data.PublicKeySSMPath
        /\ callbacks[1].body.Data.PrivateKeySSMPath
              = lastCreate.body.Data.PrivateKeySSMPath
        /\ callbacks[1].body.Data.PublicKey = public_key_pem
        /\ store[lastCreate.body.Data.PrivateKeySSMPath].Value
              = b64encode(private_key_pem)
        /\ store[lastCreate.body.Data.PublicKeySSMPath].Value = public_key_pem
        /\ (callbacks[1].body.Data = lastCreate.body.Data)
              <=> (public_key_pem = lastCreate.body.Data.PublicKey)

\* The second Create generated another key than the one the first left in
\* the store.
C10_Witness ==
    /\ SecondCreateSucceeded
    /\ ExpectedPublicPath(event0) \in DOMAIN store0
    /\ store0[ExpectedPublicPath(event0)].Value = lastCreate.body.Data.PublicKey
    /\ public_key_pem # lastCreate.body.Data.PublicKey
    /\ store[ExpectedPublicPath(event0)].Value = public_key_pem

-----------------------------------------------------------------------------
(* C11: the Data of the SUCCESS callback of a Delete event is exactly the  *)
(* mapping {Message: "Keys retained"}.                                     *)
C11_DeleteDataIsKeysRetained ==
    (DeleteDone /\ WellFormed(event0)) =>
        \A i \in DOMAIN callbacks :
            callbacks[i].body.Status = "SUCCESS" =>
                callbacks[i].body.Data = [Message |-> "Keys retained"]

(* C11, amended: the Data of the SUCCESS callback of a Delete event is     *)
(* exactly the mapping {Message: "Keys retained in SSM"}.                  *)
C11_DeleteDataIsKeysRetainedInSSM ==
    (DeleteDone /\ WellFormed(event0)) =>
        /\ Len(callbacks) = 1
        /\ callbacks[1].body.Status = "SUCCESS"
        /\ DOMAIN callbacks[1].body.Data = {"Message"}
        /\ callbacks[1].body.Data.Message = "Keys retained in SSM"

C11_Witness ==
    /\ DeleteDone
    /\ WellFormed(event0)
    /\ Len(callbacks) = 1
    /\ callbacks[1].delivered
    /\ "Message" \in DOMAIN callbacks[1].body.Data

-----------------------------------------------------------------------------
\* The put_parameter calls of the invocation, in order.
PutCalls == SelectSeq(ssm_calls, LAMBDA c : c.op = "put_parameter")

\* The handler is in its Create branch, entered directly or from an Update.
InCreate == pc \notin {"idle", "entry"} /\ request_type = "Create"

\* What the logs of a Create may hold at any point of it.
CreateOrder ==
    InCreate =>
        /\ pc \in {"mktemp", "genrsa", "pubout", "readkeys", "cleanup"} =>
              PutCalls = <<>> /\ callbacks = <<>>
        /\ Len(PutCalls) <= 2
        /\ Len(PutCalls) >= 1 =>
              /\ IsKeyPair(private_key_pem, public_key_pem)
              /\ PutCalls[1].Name = ExpectedPrivatePath(event0)
              /\ PutCalls[1].Value = b64encode(private_key_pem)
        /\ Len(PutCalls) = 2 =>
              /\ PutCalls[1].ok
              /\ PutCalls[2].Name = ExpectedPublicPath(event0)
              /\ PutCalls[2].Value = public_key_pem
        /\ \A i \in DOMAIN callbacks :
              callbacks[i].body.Status = "SUCCESS" =>
                  /\ Len(PutCalls) = 2
                  /\ PutCalls[1].ok
                  /\ PutCalls[2].ok

\* What one step of a Create may do: a store write only while no callback
\* has been attempted and after the generation is over, a callback only in
\* a step that makes no store call.
CreateStep ==
    (InCreate /\ InCreate') =>
        /\ ssm_calls' # ssm_calls =>
              /\ callbacks = <<>>
              /\ callbacks' = <<>>
              /\ ~tmpdir.exists
              /\ pc \in {"put_private", "put_public"}
        /\ callbacks' # callbacks =>
              /\ ssm_calls' = ssm_calls
              /\ store' = store
              /\ pc \in {"send_create", "except"}

(* C12: within one Create, entered directly or from an Update whose key    *)
(* was not found, the external operations happen one after the other:      *)
(* key generation, then the private-key write, then the public-key write,  *)
(* then the callback.  A SUCCESS callback is attempted only after both     *)
(* writes succeeded, and no public-key write is attempted after a failed   *)
(* private-key write.                                                      *)
C12_CreateStepsInStrictSequence ==
    [][CreateOrder' /\ CreateStep]_vars

\* A Create entered from an Update, answered SUCCESS after its two writes.
C12_Witness ==
    /\ pc = "done"
    /\ Typed(event0, "Update")
    /\ request_type = "Create"
    /\ Len(PutCalls) = 2
    /\ Len(callbacks) = 1
    /\ callbacks[1].body.Status = "SUCCESS"

-----------------------------------------------------------------------------
\* The two parameters of an Environment and Service, when both exist, hold
\* the halves of one key pair.
StoredPairMatches(env, svc) ==
    LET priv == "/" \o env \o "/" \o svc \o "/cloudfront/private-key"
        pub == "/" \o env \o "/" \o svc \o "/cloudfront/public-key"
    IN (priv \in DOMAIN store /\ pub \in DOMAIN store) =>
          \E k \in 1..NumKeys :
              /\ store[priv].Value = b64encode(PrivatePem(k))
              /\ store[pub].Value = PublicPem(k)

(* C13: between invocations, whatever events were handled and whatever     *)
(* failed, when the private-key and the public-key parameter of an         *)
(* Environment and Service both exist they hold the two halves of one      *)
(* generated key pair.                                                     *)
C13_StoredKeysAreOnePair ==
    pc \in {"idle", "done"} =>
        \A env \in Environments, svc \in Services : StoredPairMatches(env, svc)

-----------------------------------------------------------------------------
(* C14: an invocation with an event that has all the keys of the event     *)
(* shape and RequestType Create, Update or Delete attempts the delivery of *)
(* exactly one callback: one when it is over, never a second one at any    *)
(* point, and once a callback was attempted the whole invocation is over,  *)
(* also when the callback was sent by the handler call entered from an     *)
(* Update whose key was not found.                                         *)
C14_ExactlyOneCallback ==
    (pc # "idle" /\ WellFormed(event0)
        /\ event0.RequestType \in {"Create", "Update", "Delete"}) =>
        /\ Len(callbacks) <= 1
        /\ callbacks # <<>> => (pc = "done" /\ depth = 0)
        /\ pc = "done" =>
              /\ Len(callbacks) = 1
              /\ ~raised

\* The one callback of an Update was sent by the inner handler call.
C14_Witness ==
    /\ pc = "done"
    /\ WellFormed(event0)
    /\ event0.RequestType = "Update"
    /\ event.RequestType = "Create"
    /\ Len(callbacks) = 1

-----------------------------------------------------------------------------
(* C15: the temporary directory of the key generation exists only while    *)
(* the handler is between its creation and the end of the with block; it   *)
(* is erased, with its files, on every way out of the block -- success,    *)
(* failure of either openssl command, failure to read the key files --     *)
(* before any store write and any callback, and it does not exist when     *)
(* the handler has returned.                                               *)
C15_TempDirErasedBeforeWritesAndCallbacks ==
    /\ tmpdir.exists =>
          /\ pc \in {"genrsa", "pubout", "readkeys", "cleanup"}
          /\ PutCalls = <<>>
          /\ callbacks = <<>>
    /\ ~tmpdir.exists => tmpdir.files = NoFiles
    /\ pc \in {"put_private", "put_public", "send_create", "except",
               "done", "idle"} => tmpdir = NoDir

\* The second openssl command failed: the directory, which held the private
\* key file, is gone when the except clause starts.
C15_Witness ==
    /\ pc = "except"
    /\ request_type = "Create"
    /\ err = CalledProcessErrorStr("rsa")
    /\ tmpdir = NoDir
    /\ callbacks = <<>>

-----------------------------------------------------------------------------
\* The get_parameter calls of the invocation, in order.
GetCalls == SelectSeq(ssm_calls, LAMBDA c : c.op = "get_parameter")

\* handler() calls are nested at most two deep; the inner call is the one
\* of an Update whose read answered ParameterNotFound, it runs the Create
\* branch on the rewritten event and reads nothing from the store.
NestingBounded ==
    /\ depth \in 0..2
    /\ Len(GetCalls) <= 1
    /\ depth = 2 =>
          /\ event0.RequestType = "Update"
          /\ event.RequestType = "Create"
          /\ pc \notin {"get_parameter", "send_update", "delete"}
          /\ Len(GetCalls) = 1
          /\ GetCalls[1].result = "ParameterNotFound"
          /\ ssm_calls[1] = GetCalls[1]

(* C16: every invocation terminates, and an Update whose key is not found  *)
(* re-enters the handler at most once: the inner call runs with            *)
(* RequestType rewritten to Create, never reads the store and never falls  *)
(* back again, so handler calls are nested at most two deep whatever the   *)
(* store answers.                                                          *)
C16_TerminatesWithNestingAtMostTwo ==
    /\ []NestingBounded
    /\ (pc = "entry") ~> (pc = "done")

\* The inner call is about to write, two calls deep.
C16_Witness ==
    /\ depth = 2
    /\ pc = "put_private"
    /\ Len(GetCalls) = 1

====
